---- MODULE Spec2Model ----
(***************************************************************************)
(* Model of EnhancedDataGenerator (src/data_generator.py): record          *)
(* generation, missingness injection and the market-metrics pass.          *)
(*                                                                         *)
(* Numbers with one decimal (ratings, scores, adjustments) are integers in *)
(* tenths: rating 3.8 is 38, score 10.0 is 100.  Strings the code formats  *)
(* or cleans are sequences of one-character strings.  An absent value      *)
(* (None / NaN) is the empty sequence, a present value x is <<x>>.         *)
(***************************************************************************)
EXTENDS Integers, Sequences, FiniteSets, TLC

VARIABLES
    pc,              \* position in generate_comprehensive_dataset, or "idle"
    total_gyms,      \* argument total_gyms
    total_clinics,   \* argument total_clinics
    i,               \* loop variable of the running for loop
    all_businesses,  \* the list of business dicts built by the loops
    df,              \* the DataFrame made from all_businesses
    current_year,    \* datetime.now().year, an environment value
    stream,          \* the random draws consumed so far by this run
    seed_stream,     \* None, or the draws a run with the same seed replays
    first_table,     \* None, or the table the earlier run returned
    ret,             \* the last direct call of a helper method and its result
    driver,          \* SimplifiedMultiSourceCollector.driver: None or a browser
    cleanup_attempted, \* SimplifiedMultiSourceCollector._cleanup_attempted
    browsers         \* per browser created so far, the quit() calls made on it

vars == <<pc, total_gyms, total_clinics, i, all_businesses, df, current_year,
          stream, seed_stream, first_table, ret, driver, cleanup_attempted,
          browsers>>

(***************************************************************************)
(* Bounds of the model.                                                    *)
(***************************************************************************)
MaxGyms == 5
MaxClinics == 3

None == <<>>
Some(x) == <<x>>
IsNone(v) == v = <<>>
Val(v) == v[1]

Min2(a, b) == IF a <= b THEN a ELSE b
Max2(a, b) == IF a >= b THEN a ELSE b

(***************************************************************************)
(* Static tables of __init__.                                              *)
(***************************************************************************)
pune_areas ==
    {"Baner", "Koregaon Park", "Aundh", "Viman Nagar", "Hadapsar", "Wakad",
     "Hinjewadi", "Pune Station", "Camp", "Deccan", "Shivaji Nagar",
     "Karve Nagar", "Kothrud", "Warje", "Bavdhan", "Sus", "Pashan",
     "Magarpatta", "Kalyani Nagar", "Yerawada", "Kharadi", "Wagholi", "Undri",
     "Kondhwa", "Wanowrie", "Salisbury Park", "Vishrantwadi", "Dhanori",
     "Lohegaon", "Mundhwa", "Tingre Nagar", "Pimpri", "Chinchwad", "Nigdi",
     "Akurdi", "Bhosari", "Chakan", "Talegaon", "Dehu Road", "Alandi Road",
     "Sangvi", "Ravet", "Pimple Saudagar", "Pimple Nilakh"}

gym_categories ==
    {"Traditional Gym", "Health Club/Wellness", "Functional Fitness",
     "Women-Only Gym", "Yoga/Pilates Studio", "Martial Arts/Boxing"}

clinic_categories ==
    {"Multi-Specialty Hospital", "Specialty Clinic", "Diagnostic Center",
     "Physiotherapy Clinic", "Wellness Center"}

\* business_categories: the weight of each category, in hundredths.
category_weights(category) ==
    CASE category = "Traditional Gym" -> 40
      [] category = "Health Club/Wellness" -> 25
      [] category = "Functional Fitness" -> 15
      [] category = "Women-Only Gym" -> 10
      [] category = "Yoga/Pilates Studio" -> 7
      [] category = "Martial Arts/Boxing" -> 3
      [] category = "Multi-Specialty Hospital" -> 20
      [] category = "Specialty Clinic" -> 35
      [] category = "Diagnostic Center" -> 25
      [] category = "Physiotherapy Clinic" -> 15
      [] category = "Wellness Center" -> 5

(***************************************************************************)
(* f"{n:04d}" and the business_id built from it.                           *)
(***************************************************************************)
DigitChar == <<"0", "1", "2", "3", "4", "5", "6", "7", "8", "9">>

RECURSIVE Digits(_)
Digits(n) ==
    IF n < 10 THEN <<DigitChar[n + 1]>>
    ELSE Digits(n \div 10) \o <<DigitChar[(n % 10) + 1]>>

RECURSIVE ZeroPad(_, _)
ZeroPad(s, w) == IF Len(s) >= w THEN s ELSE ZeroPad(<<"0">> \o s, w)

Format04d(n) == ZeroPad(Digits(n), 4)

GymPrefix == <<"G", "Y", "M", "_">>
CliPrefix == <<"C", "L", "I", "_">>

GymId(n) == GymPrefix \o Format04d(n)

CliIdSharesGymPrefix(n) == GymPrefix \o Format04d(n)
CliId(n) == CliPrefix \o Format04d(n)

(***************************************************************************)
(* categorize_area_tier                                                    *)
(***************************************************************************)
premium_areas ==
    {"Koregaon Park", "Baner", "Aundh", "Kalyani Nagar", "Viman Nagar",
     "Magarpatta"}
mid_tier_areas ==
    {"Kothrud", "Shivaji Nagar", "Camp", "Deccan", "Wakad", "Hinjewadi"}

categorize_area_tier_rejects_unknown(area) ==
    IF area \in premium_areas THEN 1
    ELSE IF area \in mid_tier_areas THEN 2
    ELSE IF area \in pune_areas THEN 3
    ELSE 0
categorize_area_tier(area) ==
    IF area \in premium_areas THEN 1
    ELSE IF area \in mid_tier_areas THEN 2
    ELSE 3

(***************************************************************************)
(* generate_rating: u is random.uniform(-0.5, 0.5) as it shows after the   *)
(* final round(rating, 1), in tenths (-5 .. 5).                            *)
(***************************************************************************)
base_ratings(business_type) ==
    CASE business_type = "Traditional Gym" -> 38
      [] business_type = "Health Club/Wellness" -> 41
      [] business_type = "Functional Fitness" -> 40
      [] business_type = "Women-Only Gym" -> 39
      [] business_type = "Yoga/Pilates Studio" -> 42
      [] business_type = "Martial Arts/Boxing" -> 37
      [] business_type = "Multi-Specialty Hospital" -> 40
      [] business_type = "Specialty Clinic" -> 41
      [] business_type = "Diagnostic Center" -> 39
      [] business_type = "Physiotherapy Clinic" -> 40
      [] business_type = "Wellness Center" -> 42
      [] OTHER -> 38

area_adjustment_budget_penalty(area_tier) ==
    CASE area_tier = 1 -> 3
      [] area_tier = 2 -> 0
      [] area_tier = 3 -> -5
      [] OTHER -> 0
area_adjustment(area_tier) ==
    CASE area_tier = 1 -> 3
      [] area_tier = 2 -> 0
      [] area_tier = 3 -> -2
      [] OTHER -> 0

generate_rating_ten_point_scale(business_type, area_tier, u) ==
    Max2(10, Min2(100, 2 * base_ratings(business_type)
                        + area_adjustment(area_tier) + u))
generate_rating(business_type, area_tier, u) ==
    Max2(10, Min2(50, base_ratings(business_type)
                       + area_adjustment(area_tier) + u))

(***************************************************************************)
(* generate_establishment_year: the years the call can return.  Every      *)
(* decade has a positive weight, so random.choices can pick any of them.   *)
(***************************************************************************)
decades(cy) == {d \in 1970..(cy - 1) : (d - 1970) % 10 = 0}

establishment_years(cy) ==
    UNION {d..Min2(d + 9, cy - 1) : d \in decades(cy)}

\* len(decades), and the weights list built for it, in hundredths (the
\* fallback branch before its normalisation, which keeps every weight positive).
num_decades(cy) == Cardinality(decades(cy))

decade_list(cy) == [k \in 1..num_decades(cy) |-> 1970 + 10 * (k - 1)]

decade_weights_six_only(cy) == <<5, 10, 15, 20, 35, 15>>
decade_weights(cy) ==
    LET n == num_decades(cy)
    IN  IF n = 6 THEN <<5, 10, 15, 20, 35, 15>>
        ELSE IF n = 5 THEN <<10, 15, 20, 30, 25>>
        ELSE [k \in 1..n |-> IF k - 1 < n - 3 THEN 5
                             ELSE IF k - 1 < n - 1 THEN 25
                             ELSE 40]

(***************************************************************************)
(* generate_employee_count: the inclusive range of random.randint          *)
(***************************************************************************)
employee_ranges_always_default(business_type) == 5..25
employee_ranges(business_type) ==
    CASE business_type = "Traditional Gym" -> 5..25
      [] business_type = "Health Club/Wellness" -> 10..50
      [] business_type = "Functional Fitness" -> 3..15
      [] business_type = "Women-Only Gym" -> 4..20
      [] business_type = "Yoga/Pilates Studio" -> 2..10
      [] business_type = "Martial Arts/Boxing" -> 3..12
      [] business_type = "Multi-Specialty Hospital" -> 50..500
      [] business_type = "Specialty Clinic" -> 5..30
      [] business_type = "Diagnostic Center" -> 8..40
      [] business_type = "Physiotherapy Clinic" -> 3..15
      [] business_type = "Wellness Center" -> 5..25
      [] OTHER -> 5..25

(***************************************************************************)
(* generate_website: has_site is random.random() < 0.4, domain the         *)
(* random.choice(domains).  str.lower, the three replace calls, the        *)
(* isalnum filter and the [:15] slice work on character sequences.         *)
(***************************************************************************)
UpperChars == <<"A", "B", "C", "D", "E", "F", "G", "H", "I", "J", "K", "L", "M",
                "N", "O", "P", "Q", "R", "S", "T", "U", "V", "W", "X", "Y", "Z">>
LowerChars == <<"a", "b", "c", "d", "e", "f", "g", "h", "i", "j", "k", "l", "m",
                "n", "o", "p", "q", "r", "s", "t", "u", "v", "w", "x", "y", "z">>

LowerChar(c) ==
    IF \E k \in 1..26 : UpperChars[k] = c
    THEN LowerChars[CHOOSE k \in 1..26 : UpperChars[k] = c]
    ELSE c

IsAlnum(c) ==
    \/ \E k \in 1..26 : LowerChars[k] = c \/ UpperChars[k] = c
    \/ \E k \in 1..10 : DigitChar[k] = c

RECURSIVE CleanChars(_)
CleanChars(s) ==
    IF s = <<>> THEN <<>>
    ELSE LET c == LowerChar(Head(s))
             rest == CleanChars(Tail(s))
         IN  IF c = " " \/ c = "-" THEN rest
             ELSE IF c = "&" THEN <<"a", "n", "d">> \o rest
             ELSE IF IsAlnum(c) THEN <<c>> \o rest
             ELSE rest

clean_name(business_name) ==
    LET c == CleanChars(business_name)
    IN  SubSeq(c, 1, Min2(15, Len(c)))

domains ==
    {<<".", "c", "o", "m">>, <<".", "i", "n">>,
     <<".", "c", "o", ".", "i", "n">>, <<".", "o", "r", "g">>}

generate_website(business_name, has_site, domain) ==
    IF has_site
    THEN Some(<<"w", "w", "w", ".">> \o clean_name(business_name) \o domain)
    ELSE None

(***************************************************************************)
(* _calculate_market_penetration and _calculate_growth_potential, on the   *)
(* fields of the row they read.  Scores are in tenths.                     *)
(***************************************************************************)
tier_adjustment(area_tier) ==
    CASE area_tier = 1 -> -10
      [] area_tier = 2 -> 0
      [] area_tier = 3 -> 10
      [] OTHER -> 0

calculate_market_penetration_linear_penalty(area_tier, area_competition_level) ==
    50 + tier_adjustment(area_tier) - 10 * area_competition_level
calculate_market_penetration_inclusive_steps(area_tier, area_competition_level) ==
    LET score0 == 50 + tier_adjustment(area_tier)
        score  == IF area_competition_level >= 15 THEN score0 - 20
                  ELSE IF area_competition_level >= 10 THEN score0 - 10
                  ELSE IF area_competition_level <= 5 THEN score0 + 10
                  ELSE score0
    IN  Max2(10, Min2(100, score))
calculate_market_penetration(area_tier, area_competition_level) ==
    LET score0 == 50 + tier_adjustment(area_tier)
        score  == IF area_competition_level > 15 THEN score0 - 20
                  ELSE IF area_competition_level > 10 THEN score0 - 10
                  ELSE IF area_competition_level < 5 THEN score0 + 10
                  ELSE score0
    IN  Max2(10, Min2(100, score))

calculate_growth_potential_ignores_rating(established_year, rating, cy) ==
    LET years_in_operation == cy - established_year
        base == IF years_in_operation < 5 THEN 80
                ELSE IF years_in_operation < 10 THEN 70
                ELSE IF years_in_operation > 25 THEN 50
                ELSE 60
    IN  Max2(10, Min2(100, base))
calculate_growth_potential(established_year, rating, cy) ==
    LET years_in_operation == cy - established_year
        base0 == IF years_in_operation < 5 THEN 80
                 ELSE IF years_in_operation < 10 THEN 70
                 ELSE IF years_in_operation > 25 THEN 50
                 ELSE 60
        base_score == IF IsNone(rating) THEN base0
                      ELSE IF Val(rating) >= 45 THEN base0 + 10
                      ELSE IF Val(rating) < 30 THEN base0 - 20
                      ELSE base0
    IN  Max2(10, Min2(100, base_score))

(***************************************************************************)
(* The business dicts built in the two loops of                            *)
(* generate_comprehensive_dataset.  idx is the loop variable i (from 0),   *)
(* d the random draws of the iteration.                                    *)
(***************************************************************************)
GymSiteName(idx) == <<"g", "y", "m", "_">> \o Digits(idx)
ClinicSiteName(idx) == <<"c", "l", "i", "n", "i", "c", "_">> \o Digits(idx)

Business(id, type, site_name, d) ==
    [business_id       |-> id,
     business_name     |-> d.business_name,
     business_type     |-> type,
     business_category |-> d.business_type,
     rating            |-> Some(generate_rating(d.business_type,
                                    categorize_area_tier(d.area), d.u)),
     address           |-> Some(d.address),
     area              |-> d.area,
     area_tier         |-> categorize_area_tier(d.area),
     phone             |-> Some(d.phone),
     website           |-> generate_website(site_name, d.has_site, d.domain),
     established_year  |-> d.established_year,
     employee_count    |-> d.employee_count,
     extraction_method |-> "enhanced_generator",
     data_source       |-> "synthetic_realistic"]

GymBusinessTierOfCategory(idx, d) ==
    [Business(GymId(idx + 1), "Gym/Fitness", GymSiteName(idx), d)
        EXCEPT !.area_tier = IF d.business_type = "Traditional Gym" THEN 3 ELSE 1]
GymBusiness(idx, d) ==
    Business(GymId(idx + 1), "Gym/Fitness", GymSiteName(idx), d)

ClinicBusinessTypedAsGym(idx, d) ==
    Business(CliId(idx + 1), "Gym/Fitness", ClinicSiteName(idx), d)
ClinicBusiness(idx, d) ==
    Business(CliId(idx + 1), "Healthcare/Clinic", ClinicSiteName(idx), d)

(***************************************************************************)
(* The draws the model takes for one iteration: two per loop, covering the *)
(* three area tiers, an area shared by both loops, both ends of the rating *)
(* variation, a present and an absent website, and establishment years on  *)
(* each side of the recency steps.                                         *)
(***************************************************************************)
GymDraws(cy) ==
    {[area |-> "Baner", business_type |-> "Traditional Gym",
      business_name |-> "Gold's Gym", u |-> 5,
      address |-> "MG 12, Road, Baner, Pune - 411001", phone |-> "9812345678",
      has_site |-> TRUE, domain |-> <<".", "c", "o", "m">>,
      established_year |-> cy - 1, employee_count |-> 5],
     [area |-> "Camp", business_type |-> "Martial Arts/Boxing",
      business_name |-> "Titan Power Arena & Martial Arts", u |-> -5,
      address |-> "Royal Plaza, FC 7, Camp, Pune - 411030", phone |-> "8000000000",
      has_site |-> FALSE, domain |-> <<".", "i", "n">>,
      established_year |-> cy - 25, employee_count |-> 12]}

ClinicDraws(cy) ==
    {[area |-> "Baner", business_type |-> "Wellness Center",
      business_name |-> "Baner Clinic", u |-> 5,
      address |-> "Star Tower, JM 999, Baner, Pune - 411061", phone |-> "9099999999",
      has_site |-> TRUE, domain |-> <<".", "o", "r", "g">>,
      established_year |-> cy - 4, employee_count |-> 25],
     [area |-> "Warje", business_type |-> "Diagnostic Center",
      business_name |-> "Dr. Sharma Diagnostics", u |-> -5,
      address |-> "Plot No. 1, Galli, Warje, Pune - 411058", phone |-> "9400000001",
      has_site |-> FALSE, domain |-> <<".", "c", "o", ".", "i", "n">>,
      established_year |-> 1970, employee_count |-> 8]}

(***************************************************************************)
(* A run that generates a single row draws from a wider set: every area of *)
(* pune_areas, and every category of the loop's weighted choice with both  *)
(* ends of its employee range and of the rating variation.  Runs with more *)
(* rows draw from GymDraws and ClinicDraws.                                *)
(***************************************************************************)
RangeEnds(S) == {x \in S : (x - 1) \notin S \/ (x + 1) \notin S}

WideDraws(base, categories) ==
    base
    \cup {[t EXCEPT !.area = a] : t \in base, a \in pune_areas}
    \cup UNION {{[t EXCEPT !.business_type = c, !.employee_count = e] :
                    e \in RangeEnds(employee_ranges(c))} :
                t \in base, c \in categories}

SingleRow == Max2(total_gyms, 0) + Max2(total_clinics, 0) = 1

GymIterationDraws ==
    IF SingleRow THEN WideDraws(GymDraws(current_year), gym_categories)
    ELSE GymDraws(current_year)

ClinicIterationDraws ==
    IF SingleRow THEN WideDraws(ClinicDraws(current_year), clinic_categories)
    ELSE ClinicDraws(current_year)

(***************************************************************************)
(* The three boolean masks of _add_realistic_missing_data, each the set of *)
(* rows it selects.  The model draws the masks that select nothing, or     *)
(* select the first or the last row in any of the three columns.           *)
(***************************************************************************)
MaskDraws(n) ==
    {[phone   |-> IF b[1] THEN {r} ELSE {},
      address |-> IF b[2] THEN {r} ELSE {},
      rating  |-> IF b[3] THEN {r} ELSE {}] :
        r \in {1, n}, b \in [1..3 -> BOOLEAN]}

add_realistic_missing_data_nulls_website(frame, m) ==
    [r \in 1..Len(frame) |->
        [frame[r] EXCEPT
            !.phone   = IF r \in m.phone THEN None ELSE @,
            !.website = IF r \in m.address THEN None ELSE @,
            !.rating  = IF r \in m.rating THEN None ELSE @]]
add_realistic_missing_data(frame, m) ==
    [r \in 1..Len(frame) |->
        [frame[r] EXCEPT
            !.phone   = IF r \in m.phone THEN None ELSE @,
            !.address = IF r \in m.address THEN None ELSE @,
            !.rating  = IF r \in m.rating THEN None ELSE @]]

(***************************************************************************)
(* _add_market_dynamics: value_counts of the area column, the map of it    *)
(* onto the rows, then the two row-wise apply calls.                       *)
(***************************************************************************)
RECURSIVE value_counts(_)
value_counts(areas) ==
    IF areas = <<>> THEN [a \in {} |-> 0]
    ELSE LET rest == value_counts(Tail(areas))
             a == Head(areas)
         IN  IF a \in DOMAIN rest THEN [rest EXCEPT ![a] = @ + 1]
             ELSE rest @@ (a :> 1)

RECURSIVE value_counts_distinct_areas(_)
value_counts_distinct_areas(areas) ==
    IF areas = <<>> THEN [a \in {} |-> 0]
    ELSE LET rest == value_counts_distinct_areas(Tail(areas))
             a == Head(areas)
         IN  [b \in DOMAIN rest \cup {a} |-> Cardinality(DOMAIN rest \cup {a})]

area_counts_distinct_areas(frame) ==
    value_counts_distinct_areas([r \in 1..Len(frame) |-> frame[r].area])
area_counts(frame) ==
    value_counts([r \in 1..Len(frame) |-> frame[r].area])

add_market_dynamics_uses_generated_rating(frame, cy) ==
    LET counts == area_counts(frame)
    IN  [r \in 1..Len(frame) |->
            frame[r] @@
            [area_competition_level |-> counts[frame[r].area],
             market_penetration |->
                calculate_market_penetration(frame[r].area_tier,
                                             counts[frame[r].area]),
             growth_potential |->
                calculate_growth_potential(
                    frame[r].established_year,
                    IF r \in DOMAIN all_businesses THEN all_businesses[r].rating
                    ELSE frame[r].rating, cy)]]
add_market_dynamics(frame, cy) ==
    LET counts == area_counts(frame)
        with_level == [r \in 1..Len(frame) |->
            frame[r] @@ [area_competition_level |-> counts[frame[r].area]]]
        with_penetration == [r \in 1..Len(frame) |->
            with_level[r] @@
            [market_penetration |->
                calculate_market_penetration(with_level[r].area_tier,
                                     with_level[r].area_competition_level)]]
    IN  [r \in 1..Len(frame) |->
            with_penetration[r] @@
            [growth_potential |->
                calculate_growth_potential(with_penetration[r].established_year,
                                           with_penetration[r].rating, cy)]]

(***************************************************************************)
(* Inputs of the direct calls of the helper methods.                       *)
(***************************************************************************)
CallCategories == gym_categories \cup clinic_categories \cup {"Pharmacy"}
CallTiers == 0..4
CallCompetition == {1, 4, 5, 8, 10, 11, 15, 16, 500}
CallRatings == {None} \cup {Some(x) : x \in {10, 29, 30, 44, 45, 50}}
CallYears(cy) ==
    {cy + 1, cy, cy - 1, cy - 4, cy - 5, cy - 9, cy - 10, cy - 25, cy - 26,
     1970, 1800, 0}
CallAreas == pune_areas \cup {"Mumbai", "baner", ""}
ClockYears == {1971, 1981, 1990, 2011, 2021, 2026, 2031, 2041}
CurrentYears == {2026}

(***************************************************************************)
(* A run with the same seed replays the draws of the earlier run; a run    *)
(* without one draws freely.                                               *)
(***************************************************************************)
Draw(choices) ==
    IF IsNone(seed_stream) THEN choices
    ELSE {Val(seed_stream)[Len(stream) + 1]}

NoCall == [op |-> "none"]

Init ==
    /\ pc = "idle"
    /\ total_gyms = 0
    /\ total_clinics = 0
    /\ i = 0
    /\ all_businesses = <<>>
    /\ df = <<>>
    /\ current_year \in CurrentYears
    /\ stream = <<>>
    /\ seed_stream = None
    /\ first_table = None
    /\ ret = NoCall
    /\ driver = None
    /\ cleanup_attempted = FALSE
    /\ browsers = <<>>

(***************************************************************************)
(* Direct calls of the pure helpers on the generator object.               *)
(***************************************************************************)
CallGenerateRating ==
    /\ pc = "idle"
    /\ \E business_type \in CallCategories, area_tier \in CallTiers, u \in -5..5 :
          ret' = [op |-> "generate_rating", business_type |-> business_type,
                  area_tier |-> area_tier, u |-> u,
                  result |-> generate_rating(business_type, area_tier, u)]
    /\ UNCHANGED <<pc, total_gyms, total_clinics, i, all_businesses, df,
                   current_year, stream, seed_stream, first_table,
                   driver, cleanup_attempted, browsers>>

CallCalculateMarketPenetration ==
    /\ pc = "idle"
    /\ \E area_tier \in CallTiers, level \in CallCompetition :
          ret' = [op |-> "_calculate_market_penetration",
                  area_tier |-> area_tier, area_competition_level |-> level,
                  result |-> calculate_market_penetration(area_tier, level)]
    /\ UNCHANGED <<pc, total_gyms, total_clinics, i, all_businesses, df,
                   current_year, stream, seed_stream, first_table,
                   driver, cleanup_attempted, browsers>>

CallCalculateGrowthPotential ==
    /\ pc = "idle"
    /\ \E year \in CallYears(current_year), rating \in CallRatings :
          ret' = [op |-> "_calculate_growth_potential",
                  established_year |-> year, rating |-> rating,
                  result |-> calculate_growth_potential(year, rating,
                                                        current_year)]
    /\ UNCHANGED <<pc, total_gyms, total_clinics, i, all_businesses, df,
                   current_year, stream, seed_stream, first_table,
                   driver, cleanup_attempted, browsers>>

(***************************************************************************)
(* generate_comprehensive_dataset, one step per loop iteration and per     *)
(* pass.                                                                   *)
(***************************************************************************)
CallGenerateComprehensiveDataset ==
    /\ pc = "idle"
    /\ \E g \in -1..MaxGyms, c \in -1..MaxClinics :
          /\ total_gyms' = g
          /\ total_clinics' = c
    /\ pc' = "gyms"
    /\ i' = 0
    /\ all_businesses' = <<>>
    /\ ret' = NoCall
    /\ UNCHANGED <<df, current_year, stream, seed_stream, first_table,
                   driver, cleanup_attempted, browsers>>

GenerateGym ==
    /\ pc = "gyms"
    /\ i < total_gyms
    /\ \E d \in Draw(GymIterationDraws) :
          /\ all_businesses' = Append(all_businesses, GymBusiness(i, d))
          /\ stream' = Append(stream, d)
    /\ i' = i + 1
    /\ UNCHANGED <<pc, total_gyms, total_clinics, df, current_year,
                   seed_stream, first_table, ret,
                   driver, cleanup_attempted, browsers>>

GymsDone ==
    /\ pc = "gyms"
    /\ ~(i < total_gyms)
    /\ pc' = "clinics"
    /\ i' = 0
    /\ UNCHANGED <<total_gyms, total_clinics, all_businesses, df, current_year,
                   stream, seed_stream, first_table, ret,
                   driver, cleanup_attempted, browsers>>

GenerateClinic ==
    /\ pc = "clinics"
    /\ i < total_clinics
    /\ \E d \in Draw(ClinicIterationDraws) :
          /\ all_businesses' = Append(all_businesses, ClinicBusiness(i, d))
          /\ stream' = Append(stream, d)
    /\ i' = i + 1
    /\ UNCHANGED <<pc, total_gyms, total_clinics, df, current_year,
                   seed_stream, first_table, ret,
                   driver, cleanup_attempted, browsers>>

\* The loop ends and pd.DataFrame(all_businesses) is made.
CreateDataFrame ==
    /\ pc = "clinics"
    /\ ~(i < total_clinics)
    /\ df' = all_businesses
    /\ pc' = "missing"
    /\ UNCHANGED <<total_gyms, total_clinics, i, all_businesses, current_year,
                   stream, seed_stream, first_table, ret,
                   driver, cleanup_attempted, browsers>>

\* A frame made from an empty list has no columns and no index: the first
\* df.loc[mask, 'phone'] = None raises ValueError ("cannot set a frame with no
\* defined index and a scalar") and the call ends with that error.
AddRealisticMissingData ==
    /\ pc = "missing"
    /\ IF Len(df) = 0
       THEN /\ pc' = "raised"
            /\ UNCHANGED <<df, stream>>
       ELSE /\ \E m \in Draw(MaskDraws(Len(df))) :
                  /\ df' = add_realistic_missing_data(df, m)
                  /\ stream' = Append(stream, m)
            /\ pc' = "metrics"
    /\ UNCHANGED <<total_gyms, total_clinics, i, all_businesses, current_year,
                   seed_stream, first_table, ret,
                   driver, cleanup_attempted, browsers>>

AddMarketDynamics ==
    /\ pc = "metrics"
    /\ df' = add_market_dynamics(df, current_year)
    /\ pc' = "done"
    /\ UNCHANGED <<total_gyms, total_clinics, i, all_businesses, current_year,
                   stream, seed_stream, first_table, ret,
                   driver, cleanup_attempted, browsers>>

CallCategorizeAreaTier ==
    /\ pc = "idle"
    /\ \E area \in CallAreas :
          ret' = [op |-> "categorize_area_tier", area |-> area,
                  result |-> categorize_area_tier(area)]
    /\ UNCHANGED <<pc, total_gyms, total_clinics, i, all_businesses, df,
                   current_year, stream, seed_stream, first_table,
                   driver, cleanup_attempted, browsers>>

\* The call reads the clock itself; cy is the year it reads.  random.choices
\* raises ValueError when weights and decades differ in length, IndexError on an
\* empty population; random.randint raises on an empty range.
CallGenerateEstablishmentYear ==
    /\ pc = "idle"
    /\ \E cy \in ClockYears :
          LET n == num_decades(cy)
              weights == decade_weights(cy)
          IN  IF Len(weights) # n \/ n = 0
              THEN ret' = [op |-> "generate_establishment_year",
                           current_year |-> cy, raised |-> TRUE]
              ELSE \E k \in {j \in 1..n : weights[j] > 0} :
                      LET chosen_decade == decade_list(cy)[k]
                          high == Min2(chosen_decade + 9, cy - 1)
                      IN  IF chosen_decade > high
                          THEN ret' = [op |-> "generate_establishment_year",
                                       current_year |-> cy, raised |-> TRUE]
                          ELSE \E year \in chosen_decade..high :
                                  ret' = [op |-> "generate_establishment_year",
                                          current_year |-> cy, raised |-> FALSE,
                                          result |-> year]
    /\ UNCHANGED <<pc, total_gyms, total_clinics, i, all_businesses, df,
                   current_year, stream, seed_stream, first_table,
                   driver, cleanup_attempted, browsers>>

CallGenerateEmployeeCount ==
    /\ pc = "idle"
    /\ \E business_type \in CallCategories :
          \E count \in RangeEnds(employee_ranges(business_type)) :
              ret' = [op |-> "generate_employee_count",
                      business_type |-> business_type, result |-> count]
    /\ UNCHANGED <<pc, total_gyms, total_clinics, i, all_businesses, df,
                   current_year, stream, seed_stream, first_table,
                   driver, cleanup_attempted, browsers>>

(***************************************************************************)
(* save_enhanced_dataset(df, filename).  A path is its directory, the parts *)
(* of its stem joined by "_", and its suffix; the clock counts the seconds  *)
(* since the call.  The locals of the call are kept in ret.                 *)
(***************************************************************************)
max_attempts == 3

DefaultFilename ==
    [dir |-> "data/output", stem |-> <<"pune_comprehensive_market_data">>,
     ext |-> ".csv"]

SaveFilenames ==
    {DefaultFilename,
     [dir |-> "data/output", stem |-> <<"pune_market_data", 3>>, ext |-> ".csv"]}

\* f"{output_dir}/{base_name}_{int(time.time())}{extension}"
retry_filename_keeps_name(filename, now) == filename
retry_filename(filename, now) == [filename EXCEPT !.stem = Append(@, now)]

\* f"data/output/pune_market_data_{timestamp}.csv"
alt_filename(timestamp) ==
    [dir |-> "data/output", stem |-> <<"pune_market_data", timestamp>>,
     ext |-> ".csv"]

\* filename = alt_filename, once the alternative file is written.
alt_saved_keeps_filename(filename, alt) == filename
alt_saved(filename, alt) == alt

\* filename.replace('.csv', '_metadata.json')
metadata_file(filename) ==
    IF filename.ext = ".csv" THEN [filename EXCEPT !.ext = "_metadata.json"]
    ELSE filename

WriteOutcomes == {"ok", "PermissionError", "OSError"}

SaveFrames(cy) ==
    {<<>>} \cup {add_market_dynamics(<<GymBusiness(0, d)>>, cy) : d \in GymDraws(cy)}

CallSaveEnhancedDataset ==
    /\ pc = "idle"
    /\ \E frame \in SaveFrames(current_year), filename \in SaveFilenames,
          mkdir_ok \in BOOLEAN :
          /\ df' = frame
          /\ ret' = [op |-> "save_enhanced_dataset", frame |-> frame,
                     requested |-> filename, filename |-> filename,
                     attempt |-> 0, now |-> 0, writes |-> <<>>,
                     metadata |-> None]
          /\ pc' = IF mkdir_ok THEN "saving" ELSE "save_raised"
    /\ UNCHANGED <<total_gyms, total_clinics, i, all_businesses,
                   current_year, stream, seed_stream, first_table,
                   driver, cleanup_attempted, browsers>>

\* One iteration of the retry loop, the write to the alternative file included.
SaveAttempt ==
    /\ pc = "saving"
    /\ LET attempt == ret.attempt
           target == IF attempt > 0 THEN retry_filename(ret.filename, ret.now)
                     ELSE ret.filename
       IN  \E outcome \in WriteOutcomes :
              LET logged == Append(ret.writes,
                                   [kind |-> "loop", attempt |-> attempt,
                                    file |-> target, outcome |-> outcome])
              IN  IF outcome = "ok"
                  THEN /\ ret' = [ret EXCEPT !.filename = target, !.writes = logged]
                       /\ pc' = "save_metadata"
                  ELSE IF attempt < max_attempts - 1
                  THEN /\ \E slept \in {1, 2} :
                             ret' = [ret EXCEPT !.filename = target,
                                                !.writes = logged,
                                                !.attempt = attempt + 1,
                                                !.now = @ + slept]
                       /\ pc' = "saving"
                  ELSE IF outcome = "PermissionError"
                  THEN \E timestamp \in {ret.now, ret.now + 1},
                          alt_outcome \in WriteOutcomes :
                          LET alt == alt_filename(timestamp)
                              both == Append(logged,
                                             [kind |-> "alt", attempt |-> attempt,
                                              file |-> alt,
                                              outcome |-> alt_outcome])
                          IN  IF alt_outcome = "ok"
                              THEN /\ ret' = [ret EXCEPT
                                                !.filename = alt_saved(target, alt),
                                                !.writes = both]
                                   /\ pc' = "save_metadata"
                              ELSE /\ ret' = [ret EXCEPT !.filename = target,
                                                         !.writes = both]
                                   /\ pc' = "save_raised"
                  ELSE /\ ret' = [ret EXCEPT !.filename = target, !.writes = logged]
                       /\ pc' = "save_raised"
    /\ UNCHANGED <<total_gyms, total_clinics, i, all_businesses, df,
                   current_year, stream, seed_stream, first_table,
                   driver, cleanup_attempted, browsers>>

\* The metadata block: df['business_type'] raises KeyError on a frame without
\* columns, and the write of the sidecar may fail; either way the except clause
\* turns the failure into the returned dictionary.
SaveMetadata ==
    /\ pc = "save_metadata"
    /\ \E outcome \in IF Len(df) = 0 THEN {"KeyError"} ELSE WriteOutcomes :
          ret' = [ret EXCEPT
                    !.writes = IF outcome = "KeyError" THEN @
                               ELSE Append(@, [kind |-> "metadata",
                                               attempt |-> ret.attempt,
                                               file |-> metadata_file(ret.filename),
                                               outcome |-> outcome]),
                    !.metadata = Some([error |-> outcome # "ok",
                                       saved_filename |-> ret.filename])]
    /\ pc' = "saved"
    /\ UNCHANGED <<total_gyms, total_clinics, i, all_businesses, df,
                   current_year, stream, seed_stream, first_table,
                   driver, cleanup_attempted, browsers>>

(***************************************************************************)
(* SimplifiedMultiSourceCollector.  A browser is the index of its entry in  *)
(* browsers; the page is the list of elements handed to                     *)
(* _parse_business_element, each with the stripped text of the sub-elements *)
(* the selectors find, or None where a selector finds nothing.              *)
(***************************************************************************)
MaxBrowsers == 4

TargetBusinesses == {0, 1, 3}

quit(brs, b) == [brs EXCEPT ![b] = @ + 1]

\* One strategy of setup_driver_with_fallback: the constructor raises, or the
\* about:blank check raises on the new browser, or both pass.
strategy_keeps_failed_driver(drv, brs) ==
    LET new == Len(brs) + 1
    IN  {[ok |-> FALSE, driver |-> None, created |-> None,
          browsers |-> IF IsNone(drv) THEN brs ELSE quit(brs, Val(drv))],
         [ok |-> FALSE, driver |-> Some(new), created |-> Some(new),
          browsers |-> Append(brs, 0)],
         [ok |-> TRUE, driver |-> Some(new), created |-> Some(new),
          browsers |-> Append(brs, 0)]}
strategy(drv, brs) ==
    LET new == Len(brs) + 1
    IN  {[ok |-> FALSE, driver |-> None, created |-> None,
          browsers |-> IF IsNone(drv) THEN brs ELSE quit(brs, Val(drv))],
         [ok |-> FALSE, driver |-> None, created |-> Some(new),
          browsers |-> quit(Append(brs, 0), new)],
         [ok |-> TRUE, driver |-> Some(new), created |-> Some(new),
          browsers |-> Append(brs, 0)]}

\* The return value ok, self.driver and the browsers afterwards, with the
\* outcome of strategy 1 and, if it was tried, of strategy 2.
setup_driver_with_fallback(drv, brs) ==
    {[ok |-> first.ok, driver |-> first.driver, browsers |-> first.browsers,
      first |-> first, second |-> None] :
        first \in {o \in strategy(drv, brs) : o.ok}}
    \cup {[ok |-> o.second.ok, driver |-> o.second.driver,
           browsers |-> o.second.browsers,
           first |-> o.first, second |-> Some(o.second)] :
            o \in UNION {{[first |-> first, second |-> second] :
                             second \in strategy(first.driver, first.browsers)} :
                         first \in {x \in strategy(drv, brs) : ~x.ok}}}

cleanup(drv, attempted, brs) ==
    IF ~IsNone(drv) /\ ~attempted
    THEN [driver |-> None, cleanup_attempted |-> TRUE,
          browsers |-> quit(brs, Val(drv))]
    ELSE [driver |-> drv, cleanup_attempted |-> attempted, browsers |-> brs]

\* __del__: the same guard, quit() and, in the finally clause, driver = None.
del_collector(drv, attempted, brs) ==
    IF ~IsNone(drv) /\ ~attempted
    THEN [driver |-> None, cleanup_attempted |-> TRUE,
          browsers |-> quit(brs, Val(drv))]
    ELSE [driver |-> drv, cleanup_attempted |-> attempted, browsers |-> brs]

PageElements ==
    [no_name |-> [name |-> None, rating_text |-> None, address |-> None],
     short   |-> [name |-> Some("AB"), rating_text |-> Some(<<"5">>),
                  address |-> None],
     golds   |-> [name |-> Some("Gold's Gym"),
                  rating_text |-> Some(<<"4", ".", "2", " ", "/", "5">>),
                  address |-> None],
     fitzone |-> [name |-> Some("FitZone Aundh"),
                  rating_text |-> Some(<<"N", "e", "w">>),
                  address |-> Some("Aundh, Pune")]]

Pages ==
    {<<>>,
     <<PageElements.no_name, PageElements.short, PageElements.golds>>,
     <<PageElements.golds, PageElements.fitzone>>}

\* len(business_name) of the names on the pages.
len(business_name) ==
    CASE business_name = "AB" -> 2
      [] business_name = "Gold's Gym" -> 10
      [] business_name = "FitZone Aundh" -> 13

\* re.search(r'(\d+\.?\d*)', rating_text) and float() of the match, in tenths.
is_digit(c) == \E k \in 1..10 : DigitChar[k] = c
digit(c) == (CHOOSE k \in 1..10 : DigitChar[k] = c) - 1

RECURSIVE digit_run(_, _)
digit_run(text, p) ==
    IF p > Len(text) \/ ~is_digit(text[p]) THEN 0
    ELSE 1 + digit_run(text, p + 1)

RECURSIVE digits_value(_, _, _)
digits_value(text, p, n) ==
    IF n = 0 THEN 0
    ELSE 10 * digits_value(text, p, n - 1) + digit(text[p + n - 1])

rating_match(rating_text) ==
    LET starts == {p \in 1..Len(rating_text) : is_digit(rating_text[p])}
    IN  IF starts = {} THEN None
        ELSE LET p == CHOOSE q \in starts : \A o \in starts : q <= o
                 whole == digit_run(rating_text, p)
                 dot == p + whole
                 fraction == IF dot <= Len(rating_text) /\ rating_text[dot] = "."
                             THEN digit_run(rating_text, dot + 1) ELSE 0
             IN  Some(10 * digits_value(rating_text, p, whole)
                      + IF fraction > 0 THEN digit(rating_text[dot + 1]) ELSE 0)

parse_business_element(element) ==
    IF IsNone(element.name) THEN None
    ELSE IF len(Val(element.name)) < 3 THEN None
    ELSE Some([business_name     |-> Val(element.name),
               rating            |-> IF IsNone(element.rating_text) THEN None
                                     ELSE rating_match(Val(element.rating_text)),
               address           |-> element.address,
               source            |-> "justdial_scraped",
               business_category |-> "Traditional Gym",
               business_type     |-> "fitness"])

RECURSIVE extract_justdial_businesses(_)
extract_justdial_businesses(page) ==
    IF page = <<>> THEN <<>>
    ELSE LET business == parse_business_element(Head(page))
             rest == extract_justdial_businesses(Tail(page))
         IN  IF IsNone(business) THEN rest ELSE <<Val(business)>> \o rest

\* The dict appended for each row of generated_df.
generated_result(row) ==
    [business_name     |-> row.business_name,
     business_category |-> row.business_category,
     rating            |-> row.rating,
     address           |-> row.address,
     area              |-> row.area,
     phone             |-> row.phone,
     website           |-> row.website,
     source            |-> "generated_fallback",
     business_type     |-> row.business_type]

\* generate_comprehensive_dataset(gyms_needed, clinics_needed) as the collector
\* calls it; of the masks, those that null a rating or nothing.
generated_frames(gyms_needed, clinics_needed, cy) ==
    LET n == gyms_needed + clinics_needed
    IN  {add_market_dynamics(add_realistic_missing_data(
             [k \in 1..n |-> IF k <= gyms_needed THEN GymBusiness(k - 1, gd[k])
                             ELSE ClinicBusiness(k - gyms_needed - 1,
                                                 cd[k - gyms_needed])], m), cy) :
            gd \in [1..gyms_needed -> GymDraws(cy)],
            cd \in [1..clinics_needed -> ClinicDraws(cy)],
            m \in {x \in MaskDraws(n) : x.phone = {} /\ x.address = {}}}

\* pd.DataFrame(all_results): a key a dict lacks is a missing value in its row.
results_frame(all_results) ==
    [k \in 1..Len(all_results) |->
        LET d == all_results[k]
        IN  [business_name     |-> d.business_name,
             business_category |-> d.business_category,
             rating            |-> d.rating,
             address           |-> d.address,
             area              |-> IF "area" \in DOMAIN d THEN Some(d.area) ELSE None,
             phone             |-> IF "phone" \in DOMAIN d THEN d.phone ELSE None,
             website           |-> IF "website" \in DOMAIN d THEN d.website ELSE None,
             source            |-> d.source,
             business_type     |-> d.business_type]]

\* df.drop_duplicates(subset=['business_name'], keep='first')
RECURSIVE keep_first(_, _)
keep_first(frame, r) ==
    IF r = 0 THEN <<>>
    ELSE IF \E q \in 1..(r - 1) : frame[q].business_name = frame[r].business_name
         THEN keep_first(frame, r - 1)
         ELSE Append(keep_first(frame, r - 1), frame[r])

drop_duplicates(frame) == keep_first(frame, Len(frame))

\* np.random.uniform(3.0, 4.5, missing_ratings), in tenths.
random_ratings(frame) ==
    [{r \in 1..Len(frame) : IsNone(frame[r].rating)} -> {30, 44}]

process_multi_source_data(frame, fill) ==
    [r \in 1..Len(frame) |->
        IF IsNone(frame[r].rating) THEN [frame[r] EXCEPT !.rating = Some(fill[r])]
        ELSE frame[r]]

\* int(needed_count * 0.7)
gyms_of(needed_count) == (needed_count * 7) \div 10

\* Entry of collect_multi_source_data, up to the return of
\* setup_driver_with_fallback.
CallCollectMultiSourceData ==
    /\ pc \in {"idle", "collected"}
    /\ Len(browsers) + 2 <= MaxBrowsers
    /\ \E target_businesses \in TargetBusinesses,
          setup \in setup_driver_with_fallback(driver, browsers) :
          /\ ret' = [op |-> "collect_multi_source_data",
                     target_businesses |-> target_businesses,
                     browsers_before |-> Len(browsers),
                     driver_available |-> setup.ok,
                     first |-> setup.first, second |-> setup.second]
          /\ driver' = setup.driver
          /\ browsers' = setup.browsers
    /\ pc' = "collecting"
    /\ UNCHANGED <<total_gyms, total_clinics, i, all_businesses, df,
                   current_year, stream, seed_stream, first_table,
                   cleanup_attempted>>

\* A call of setup_driver_with_fallback by itself.
CallSetupDriverWithFallback ==
    /\ pc \in {"idle", "collected"}
    /\ Len(browsers) + 2 <= MaxBrowsers
    /\ \E setup \in setup_driver_with_fallback(driver, browsers) :
          /\ ret' = [op |-> "setup_driver_with_fallback",
                     driver_available |-> setup.ok,
                     first |-> setup.first, second |-> setup.second]
          /\ driver' = setup.driver
          /\ browsers' = setup.browsers
    /\ pc' = "collected"
    /\ UNCHANGED <<total_gyms, total_clinics, i, all_businesses, df,
                   current_year, stream, seed_stream, first_table,
                   cleanup_attempted>>

\* cleanup(), __exit__ (which calls cleanup and returns False) and __del__.
\* quit() may raise; every handler swallows it, so the call returns either way.
CallCleanup ==
    /\ pc \in {"idle", "collected"}
    /\ \E method \in {"cleanup", "__exit__"}, quit_raises \in BOOLEAN :
          LET cleaned == cleanup(driver, cleanup_attempted, browsers)
          IN  /\ ret' = [op |-> method, held |-> driver,
                         attempted_before |-> cleanup_attempted,
                         browsers_before |-> browsers,
                         quit_raises |-> quit_raises, raised |-> FALSE]
              /\ driver' = cleaned.driver
              /\ cleanup_attempted' = cleaned.cleanup_attempted
              /\ browsers' = cleaned.browsers
    /\ pc' = "collected"
    /\ UNCHANGED <<total_gyms, total_clinics, i, all_businesses, df,
                   current_year, stream, seed_stream, first_table>>

CallDel ==
    /\ pc \in {"idle", "collected"}
    /\ \E quit_raises \in BOOLEAN :
          LET cleaned == del_collector(driver, cleanup_attempted, browsers)
          IN  /\ ret' = [op |-> "__del__", held |-> driver,
                         attempted_before |-> cleanup_attempted,
                         browsers_before |-> browsers,
                         quit_raises |-> quit_raises, raised |-> FALSE]
              /\ driver' = cleaned.driver
              /\ cleanup_attempted' = cleaned.cleanup_attempted
              /\ browsers' = cleaned.browsers
    /\ pc' = "collected"
    /\ UNCHANGED <<total_gyms, total_clinics, i, all_businesses, df,
                   current_year, stream, seed_stream, first_table>>

\* The rest of collect_multi_source_data: scraping, the generated supplement,
\* cleanup and _process_multi_source_data.
CollectAndProcess ==
    /\ pc = "collecting"
    /\ \E page \in IF ret.driver_available THEN Pages ELSE {<<>>} :
          LET scraped == extract_justdial_businesses(page)
              needed_count == Max2(0, ret.target_businesses - Len(scraped))
              gyms_needed == gyms_of(needed_count)
              clinics_needed == needed_count - gyms_needed
          IN  \E generated_df \in
                     IF needed_count > 0
                     THEN generated_frames(gyms_needed, clinics_needed,
                                           current_year)
                     ELSE {<<>>} :
                 LET all_results ==
                         scraped \o [k \in 1..Len(generated_df) |->
                                        generated_result(generated_df[k])]
                     cleaned == cleanup(driver, cleanup_attempted, browsers)
                     frame == drop_duplicates(results_frame(all_results))
                 IN  /\ \E fill \in random_ratings(frame) :
                           ret' = [op |-> "collect_multi_source_data",
                                   target_businesses |-> ret.target_businesses,
                                   browsers_before |-> ret.browsers_before,
                                   driver_available |-> ret.driver_available,
                                   scraped |-> Len(scraped),
                                   result |-> process_multi_source_data(frame,
                                                                        fill)]
                     /\ driver' = cleaned.driver
                     /\ cleanup_attempted' = cleaned.cleanup_attempted
                     /\ browsers' = cleaned.browsers
    /\ pc' = "collected"
    /\ UNCHANGED <<total_gyms, total_clinics, i, all_businesses, df,
                   current_year, stream, seed_stream, first_table>>

(***************************************************************************)
(* MarketAnalysisPipeline.run_complete_pipeline and its four stages.  The   *)
(* scraper, processor, analyzer and scorer are collaborators: a stage is    *)
(* modelled by the path its own code takes on what they return or raise.    *)
(* The locals of the run are kept in ret.                                   *)
(***************************************************************************)
pipeline_stages ==
    <<"run_scraping", "run_data_processing", "run_market_analysis",
      "run_lead_scoring">>

\* Where run_complete_pipeline goes after stage k returned.
after_stage_ignores_failure(k, returned) ==
    IF k < Len(pipeline_stages) THEN pipeline_stages[k + 1]
    ELSE "print_pipeline_summary"
after_stage(k, returned) ==
    IF ~returned THEN "pipeline_returned"
    ELSE IF k < Len(pipeline_stages) THEN pipeline_stages[k + 1]
    ELSE "print_pipeline_summary"

stage_returned(k, path, returned) ==
    [ret EXCEPT
        !.log = Append(@, [stage |-> pipeline_stages[k], path |-> path,
                           result |-> IF returned THEN "True" ELSE "False"]),
        !.result = IF after_stage(k, returned) = "pipeline_returned"
                   THEN Some(FALSE) ELSE @]

CallRunCompletePipeline ==
    /\ pc = "idle"
    /\ ret' = [op |-> "run_complete_pipeline", log |-> <<>>,
               scraper_created |-> FALSE, cleanup_calls |-> 0,
               result |-> None]
    /\ pc' = pipeline_stages[1]
    /\ UNCHANGED <<total_gyms, total_clinics, i, all_businesses, df,
                   current_year, stream, seed_stream, first_table,
                   driver, cleanup_attempted, browsers>>

\* run_scraping(phase=4): the constructor raises, or setup_stealth_driver,
\* search_gyms_ultimate and save_results return or raise; the finally clause
\* calls scraper.cleanup() if a scraper exists, and an exception of cleanup
\* leaves run_scraping and run_complete_pipeline.
RunScrapingPaths ==
    {"constructor_raises", "setup_false", "setup_raises", "search_false",
     "search_raises", "save_raises", "saved"}

RunScraping ==
    /\ pc = "run_scraping"
    /\ \E path \in RunScrapingPaths, cleanup_raises \in BOOLEAN :
          LET created == path # "constructor_raises"
              returned == stage_returned(1, path, path = "saved")
              cleaned == [returned EXCEPT
                             !.scraper_created = created,
                             !.cleanup_calls = IF created THEN @ + 1 ELSE @]
          IN  IF created /\ cleanup_raises
              THEN /\ ret' = [cleaned EXCEPT
                                !.log = Append(ret.log,
                                               [stage |-> pipeline_stages[1],
                                                path |-> path,
                                                result |-> "raised"]),
                                !.result = None]
                   /\ pc' = "pipeline_raised"
              ELSE /\ ret' = cleaned
                   /\ pc' = after_stage(1, path = "saved")
    /\ UNCHANGED <<total_gyms, total_clinics, i, all_businesses, df,
                   current_year, stream, seed_stream, first_table,
                   driver, cleanup_attempted, browsers>>

RunDataProcessing ==
    /\ pc = "run_data_processing"
    /\ \E path \in {"file_missing", "process_raises", "clean_data_empty",
                    "processed"} :
          /\ ret' = stage_returned(2, path, path = "processed")
          /\ pc' = after_stage(2, path = "processed")
    /\ UNCHANGED <<total_gyms, total_clinics, i, all_businesses, df,
                   current_year, stream, seed_stream, first_table,
                   driver, cleanup_attempted, browsers>>

RunMarketAnalysis ==
    /\ pc = "run_market_analysis"
    /\ \E path \in {"file_missing", "analysis_raises", "analysed"} :
          /\ ret' = stage_returned(3, path, path = "analysed")
          /\ pc' = after_stage(3, path = "analysed")
    /\ UNCHANGED <<total_gyms, total_clinics, i, all_businesses, df,
                   current_year, stream, seed_stream, first_table,
                   driver, cleanup_attempted, browsers>>

RunLeadScoring ==
    /\ pc = "run_lead_scoring"
    /\ \E path \in {"file_missing", "data_empty", "scoring_raises", "scored"} :
          /\ ret' = stage_returned(4, path, path = "scored")
          /\ pc' = after_stage(4, path = "scored")
    /\ UNCHANGED <<total_gyms, total_clinics, i, all_businesses, df,
                   current_year, stream, seed_stream, first_table,
                   driver, cleanup_attempted, browsers>>

\* _print_pipeline_summary, outside any try, and return True.
PrintPipelineSummary ==
    /\ pc = "print_pipeline_summary"
    /\ \E summary_raises \in BOOLEAN :
          IF summary_raises
          THEN /\ ret' = ret
               /\ pc' = "pipeline_raised"
          ELSE /\ ret' = [ret EXCEPT !.result = Some(TRUE)]
               /\ pc' = "pipeline_returned"
    /\ UNCHANGED <<total_gyms, total_clinics, i, all_businesses, df,
                   current_year, stream, seed_stream, first_table,
                   driver, cleanup_attempted, browsers>>

(***************************************************************************)
(* MultiSourceDataCollector._standardize_phone, on a phone given as its     *)
(* characters, or None.                                                     *)
(***************************************************************************)
PhoneInputs ==
    {None,
     Some(<<>>),
     Some(<<"9", "8", "1", "2", "3", " ", "4", "5", "6", "7", "8">>),
     Some(<<"+", "9", "1", "-", "9", "8", "1", "2", "3", "4", "5", "6", "7", "8">>),
     Some(<<"9", "1", "1", "2", "3", "4", "5", "6", "7", "8", "9", "0">>),
     Some(<<"5", "8", "1", "2", "3", "4", "5", "6", "7", "8">>),
     Some(<<"1", "2", "3", "4", "5">>),
     Some(<<"0", "2", "0", "-", "2", "5", "6", "7">>)}

\* ''.join(filter(str.isdigit, str(phone)))
RECURSIVE digits_of(_)
digits_of(text) ==
    IF text = <<>> THEN <<>>
    ELSE IF is_digit(Head(text)) THEN <<Head(text)>> \o digits_of(Tail(text))
    ELSE digits_of(Tail(text))

standardize_phone(phone) ==
    IF IsNone(phone) \/ Val(phone) = <<>> THEN None
    ELSE LET digits == digits_of(Val(phone))
         IN  IF Len(digits) = 10 /\ digits[1] \in {"6", "7", "8", "9"}
             THEN Some(digits)
             ELSE IF Len(digits) = 12 /\ SubSeq(digits, 1, 2) = <<"9", "1">>
             THEN Some(SubSeq(digits, 3, 12))
             ELSE None

CallStandardizePhone ==
    /\ pc = "idle"
    /\ \E phone \in PhoneInputs :
          ret' = [op |-> "_standardize_phone", phone |-> phone,
                  result |-> standardize_phone(phone)]
    /\ UNCHANGED <<pc, total_gyms, total_clinics, i, all_businesses, df,
                   current_year, stream, seed_stream, first_table,
                   driver, cleanup_attempted, browsers>>

Next ==
    \/ CallGenerateRating
    \/ CallCategorizeAreaTier
    \/ CallGenerateEstablishmentYear
    \/ CallGenerateEmployeeCount
    \/ CallCalculateMarketPenetration
    \/ CallCalculateGrowthPotential
    \/ CallGenerateComprehensiveDataset
    \/ GenerateGym
    \/ GymsDone
    \/ GenerateClinic
    \/ CreateDataFrame
    \/ AddRealisticMissingData
    \/ AddMarketDynamics
    \/ CallSaveEnhancedDataset
    \/ SaveAttempt
    \/ SaveMetadata
    \/ CallCollectMultiSourceData
    \/ CollectAndProcess
    \/ CallSetupDriverWithFallback
    \/ CallCleanup
    \/ CallDel
    \/ CallRunCompletePipeline
    \/ RunScraping
    \/ RunDataProcessing
    \/ RunMarketAnalysis
    \/ RunLeadScoring
    \/ PrintPipelineSummary
    \/ CallStandardizePhone

Spec == Init /\ [][Next]_vars

(***************************************************************************)
(* Two runs of the generation with the same seed and the same counts: the  *)
(* second run replays the draws of the first, and the clock may have moved *)
(* on by a year in between.                                                *)
(***************************************************************************)
RunAgainWithSameSeed ==
    /\ pc = "done"
    /\ IsNone(first_table)
    /\ first_table' = Some(df)
    /\ seed_stream' = Some(stream)
    /\ stream' = <<>>
    /\ current_year' \in {current_year, current_year + 1}
    /\ pc' = "gyms"
    /\ i' = 0
    /\ all_businesses' = <<>>
    /\ df' = <<>>
    /\ UNCHANGED <<total_gyms, total_clinics, ret,
                   driver, cleanup_attempted, browsers>>

NextTwoRuns == Next \/ RunAgainWithSameSeed

SpecTwoRuns == Init /\ [][NextTwoRuns]_vars

(***************************************************************************)
(* Properties.                                                             *)
(***************************************************************************)
Done == pc = "done"
Rows(t) == 1..Len(t)
IsDigit(c) == \E k \in 1..10 : DigitChar[k] = c
DigitValue(c) == (CHOOSE k \in 1..10 : DigitChar[k] = c) - 1

RECURSIVE ParseInt(_)
ParseInt(s) ==
    IF s = <<>> THEN 0
    ELSE 10 * ParseInt(SubSeq(s, 1, Len(s) - 1)) + DigitValue(s[Len(s)])

\* prefix, then a decimal number of at least four digits whose leading zeros
\* only fill it up to four
HasIdForm(id, prefix) ==
    /\ Len(id) >= Len(prefix) + 4
    /\ SubSeq(id, 1, Len(prefix)) = prefix
    /\ \A k \in (Len(prefix) + 1)..Len(id) : IsDigit(id[k])
    /\ Len(id) > Len(prefix) + 4 => id[Len(prefix) + 1] # "0"

IdNumber(id) == ParseInt(SubSeq(id, 5, Len(id)))

\* C1: in every returned table the business_id values are pairwise distinct,
\* every Gym/Fitness row has an id GYM_<zero-padded sequence> and every
\* Healthcare/Clinic row an id CLI_<zero-padded sequence>.
C1_UniquePrefixedIds ==
    Done =>
        /\ \A a, b \in Rows(df) :
              a # b => df[a].business_id # df[b].business_id
        /\ \A r \in Rows(df) :
              /\ df[r].business_type = "Gym/Fitness" =>
                    HasIdForm(df[r].business_id, <<"G", "Y", "M", "_">>)
              /\ df[r].business_type = "Healthcare/Clinic" =>
                    HasIdForm(df[r].business_id, <<"C", "L", "I", "_">>)

C1_Witness ==
    /\ Done
    /\ \E a, b, c \in Rows(df) :
          /\ a # b
          /\ df[a].business_type = "Gym/Fitness"
          /\ df[b].business_type = "Gym/Fitness"
          /\ df[c].business_type = "Healthcare/Clinic"

\* C2: a call with non-negative counts g and c returns exactly g + c rows, with
\* ids GYM_0001..GYM_g followed by CLI_0001..CLI_c, each prefix numbered from 1.
C2_RowsAndSequentialIds ==
    (pc \in {"done", "raised"} /\ total_gyms >= 0 /\ total_clinics >= 0) =>
        /\ Done
        /\ Len(df) = total_gyms + total_clinics
        /\ \A r \in Rows(df) :
              IF r <= total_gyms
              THEN /\ HasIdForm(df[r].business_id, <<"G", "Y", "M", "_">>)
                   /\ IdNumber(df[r].business_id) = r
              ELSE /\ HasIdForm(df[r].business_id, <<"C", "L", "I", "_">>)
                   /\ IdNumber(df[r].business_id) = r - total_gyms

\* C3: two runs with the same seed and the same (non-negative) counts return
\* identical tables.
C3_SameSeedSameTable ==
    (Done /\ ~IsNone(first_table) /\ total_gyms >= 0 /\ total_clinics >= 0)
        => df = Val(first_table)

\* C4: in the final table each row's area_competition_level is the number of
\* rows with that row's area, so it is at least 1 and equal on rows that share
\* an area.
C4_CompetitionIsAreaCount ==
    Done =>
        \A r \in Rows(df) :
            /\ df[r].area_competition_level =
                  Cardinality({j \in Rows(df) : df[j].area = df[r].area})
            /\ df[r].area_competition_level >= 1
            /\ \A j \in Rows(df) :
                  df[j].area = df[r].area =>
                      df[j].area_competition_level = df[r].area_competition_level

C4_Witness ==
    /\ Done
    /\ \E a, b, c \in Rows(df) :
          /\ a # b
          /\ df[a].area = df[b].area
          /\ df[c].area # df[a].area
          /\ df[a].area_competition_level > df[c].area_competition_level

\* C5: at every point of the generation, in the list and in the frame, each
\* row's area_tier is the tier of that row's area: 1 for a premium area, 2 for a
\* mid-tier area, 3 otherwise.
TierMatchesArea(row) ==
    /\ row.area_tier = categorize_area_tier(row.area)
    /\ row.area_tier = 1 <=> row.area \in premium_areas
    /\ row.area_tier = 2 <=> row.area \in mid_tier_areas

C5_TierDerivedFromArea ==
    /\ \A r \in Rows(all_businesses) : TierMatchesArea(all_businesses[r])
    /\ \A r \in Rows(df) : TierMatchesArea(df[r])

C5_Witness ==
    /\ Done
    /\ \E a, b, c \in Rows(df) :
          /\ df[a].area_tier = 1
          /\ df[b].area_tier = 2
          /\ df[c].area_tier = 3
          /\ IsNone(df[a].rating)

\* C6: market_penetration and growth_potential are within [1.0, 10.0] on every
\* row of the final table and for every direct call of the two score functions,
\* whatever the tier, competition count, establishment year or rating.
InScoreRange(x) == 10 <= x /\ x <= 100

C6_ScoresInRange ==
    /\ Done => \A r \in Rows(df) :
                  /\ InScoreRange(df[r].market_penetration)
                  /\ InScoreRange(df[r].growth_potential)
    /\ ret.op \in {"_calculate_market_penetration", "_calculate_growth_potential"}
          => InScoreRange(ret.result)

C6_Witness ==
    /\ ret.op = "_calculate_market_penetration"
    /\ ret.area_competition_level = 500
    /\ ret.area_tier \notin {1, 2, 3}

\* C7: generate_rating returns a rating within [1.0, 5.0] for every category,
\* known or not, and every tier; every row's rating is absent or within
\* [1.0, 5.0].
InRatingRange(x) == 10 <= x /\ x <= 50

RatingAbsentOrInRange(row) == IsNone(row.rating) \/ InRatingRange(Val(row.rating))

C7_RatingInRange ==
    /\ ret.op = "generate_rating" => InRatingRange(ret.result)
    /\ \A r \in Rows(all_businesses) : RatingAbsentOrInRange(all_businesses[r])
    /\ \A r \in Rows(df) : RatingAbsentOrInRange(df[r])

C7_Witness ==
    /\ ret.op = "generate_rating"
    /\ ret.business_type \notin gym_categories \cup clinic_categories
    /\ ret.area_tier = 1
    /\ ret.u = 5

\* C8: the metrics pass adds exactly the columns area_competition_level,
\* market_penetration and growth_potential and changes no field a row already
\* had; the missingness pass changes nothing but phone, address and rating, and
\* those only to absent.
MetricsColumns == {"area_competition_level", "market_penetration", "growth_potential"}

MetricsStepFrame ==
    /\ Len(df') = Len(df)
    /\ \A r \in Rows(df) :
          /\ DOMAIN df[r] \cap MetricsColumns = {}
          /\ DOMAIN df'[r] = DOMAIN df[r] \cup MetricsColumns
          /\ \A f \in DOMAIN df[r] : df'[r][f] = df[r][f]

MissingStepFrame ==
    /\ Len(df') = Len(df)
    /\ \A r \in Rows(df) :
          /\ DOMAIN df'[r] = DOMAIN df[r]
          /\ \A f \in DOMAIN df[r] :
                \/ df'[r][f] = df[r][f]
                \/ f \in {"phone", "address", "rating"} /\ df'[r][f] = None

C8_MetricsPassFrame ==
    [][/\ (pc = "metrics" /\ pc' = "done") => MetricsStepFrame
       /\ (pc = "missing" /\ pc' = "metrics") => MissingStepFrame
       /\ pc' \in {"metrics", "done"} => all_businesses' = all_businesses]_vars

C8_Witness ==
    /\ Done
    /\ \E r \in Rows(df) :
          /\ IsNone(df[r].phone)
          /\ IsNone(df[r].address)
          /\ IsNone(df[r].rating)
          /\ ~IsNone(all_businesses[r].rating)
          /\ MetricsColumns \subseteq DOMAIN df[r]

\* C9: market_penetration = clamp(5.0 + t + c, 1.0, 10.0), t = -1.0, 0.0, +1.0
\* for tier 1, 2, 3 and c = -2.0 above 15 competitors, -1.0 above 10, +1.0
\* below 5, 0.0 otherwise; eight rows in one tier-1 area give level 8 and
\* penetration 4.0 on every row.
ClaimedTierTerm(t) == IF t = 1 THEN -10 ELSE IF t = 2 THEN 0 ELSE 10

ClaimedCompetitionTerm(n) ==
    IF n > 15 THEN -20 ELSE IF n > 10 THEN -10 ELSE IF n < 5 THEN 10 ELSE 0

ClaimedPenetration(t, n) ==
    Max2(10, Min2(100, 50 + ClaimedTierTerm(t) + ClaimedCompetitionTerm(n)))

C9_PenetrationFormula ==
    /\ Done => \A r \in Rows(df) :
                  df[r].market_penetration =
                      ClaimedPenetration(df[r].area_tier,
                                         df[r].area_competition_level)
    /\ (ret.op = "_calculate_market_penetration" /\ ret.area_tier \in {1, 2, 3})
          => ret.result = ClaimedPenetration(ret.area_tier,
                                             ret.area_competition_level)
    /\ (Done /\ Len(df) = 8
             /\ \E a \in premium_areas : \A r \in Rows(df) : df[r].area = a)
          => \A r \in Rows(df) : /\ df[r].area_competition_level = 8
                                 /\ df[r].market_penetration = 40

C9_Witness ==
    /\ Done
    /\ Len(df) = 8
    /\ \A r \in Rows(df) : /\ df[r].area = "Baner"
                           /\ df[r].area_tier = 1
                           /\ df[r].area_competition_level = 8
                           /\ df[r].market_penetration = 40

\* C10: growth_potential = clamp(6.0 + a + b, 1.0, 10.0) with y the years since
\* establishment, a = +2.0 below 5 years, +1.0 below 10, -1.0 above 25, else 0,
\* and b = 0 for an absent rating, else +1.0 from 4.5 up, -2.0 below 3.0, else 0.
ClaimedRecencyTerm(y) ==
    IF y < 5 THEN 20 ELSE IF y < 10 THEN 10 ELSE IF y > 25 THEN -10 ELSE 0

ClaimedRatingTerm(rating) ==
    IF IsNone(rating) THEN 0
    ELSE IF Val(rating) >= 45 THEN 10
    ELSE IF Val(rating) < 30 THEN -20
    ELSE 0

ClaimedGrowth(year, rating, cy) ==
    Max2(10, Min2(100, 60 + ClaimedRecencyTerm(cy - year)
                          + ClaimedRatingTerm(rating)))

C10_GrowthFormula ==
    /\ Done => \A r \in Rows(df) :
                  df[r].growth_potential =
                      ClaimedGrowth(df[r].established_year, df[r].rating,
                                    current_year)
    /\ ret.op = "_calculate_growth_potential"
          => ret.result = ClaimedGrowth(ret.established_year, ret.rating,
                                        current_year)

C10_Witness ==
    /\ Done
    /\ \E a, b \in Rows(df) :
          /\ ~IsNone(df[a].rating)
          /\ Val(df[a].rating) >= 45
          /\ current_year - df[a].established_year < 5
          /\ df[a].growth_potential = 90
          /\ IsNone(df[b].rating)
          /\ current_year - df[b].established_year > 25
          /\ df[b].growth_potential = 50

\* C11: a run with total_gyms = 0 and total_clinics = 0 does not raise; it
\* returns an empty result without the three computed columns.
C11_EmptyRunReturnsEmpty ==
    (total_gyms = 0 /\ total_clinics = 0 /\ pc \in {"metrics", "done", "raised"})
        => /\ pc # "raised"
           /\ Len(df) = 0

\* C12: a call with a negative count never generates a record and never returns
\* a table.
C12_NegativeCountFailsFast ==
    (total_gyms < 0 \/ total_clinics < 0)
        => /\ all_businesses = <<>>
           /\ pc # "done"

\* The characters of the business names the model draws.
NameChars(name) ==
    CASE name = "Gold's Gym" ->
            <<"G", "o", "l", "d", "'", "s", " ", "G", "y", "m">>
      [] name = "Titan Power Arena & Martial Arts" ->
            <<"T", "i", "t", "a", "n", " ", "P", "o", "w", "e", "r", " ", "A", "r", "e", "n", "a", " ", "&", " ", "M", "a", "r", "t", "i", "a", "l", " ", "A", "r", "t", "s">>
      [] name = "Baner Clinic" ->
            <<"B", "a", "n", "e", "r", " ", "C", "l", "i", "n", "i", "c">>
      [] name = "Dr. Sharma Diagnostics" ->
            <<"D", "r", ".", " ", "S", "h", "a", "r", "m", "a", " ", "D", "i", "a", "g", "n", "o", "s", "t", "i", "c", "s">>

RECURSIVE StripNonAlnum(_)
StripNonAlnum(s) ==
    IF s = <<>> THEN <<>>
    ELSE IF IsAlnum(Head(s)) THEN <<Head(s)>> \o StripNonAlnum(Tail(s))
    ELSE StripNonAlnum(Tail(s))

ClaimedNamePart(name) ==
    LET c == StripNonAlnum([k \in 1..Len(name) |-> LowerChar(name[k])])
    IN  SubSeq(c, 1, Min2(15, Len(c)))

ClaimedSuffixes ==
    {<<".", "c", "o", "m">>, <<".", "i", "n">>,
     <<".", "c", "o", ".", "i", "n">>, <<".", "o", "r", "g">>}

\* C13: every present website is "www.", then the row's own business name
\* lowercased, stripped of non-alphanumeric characters and cut to 15
\* characters, then one of .com, .in, .co.in, .org.
C13_WebsiteFromOwnName ==
    Done =>
        \A r \in Rows(df) :
            ~IsNone(df[r].website) =>
                \E suffix \in ClaimedSuffixes :
                    Val(df[r].website) =
                        <<"w", "w", "w", ".">>
                        \o ClaimedNamePart(NameChars(df[r].business_name))
                        \o suffix

\* C14: the missingness pass runs on the complete table and before any derived
\* column exists, and a nulled rating is gone for the metrics pass: in the
\* final table a row with an absent rating has
\* growth_potential = clamp(6.0 + recency adjustment, 1.0, 10.0).
C14_MissingnessBeforeMetrics ==
    /\ pc \in {"missing", "metrics"} =>
          /\ Len(df) = Max2(total_gyms, 0) + Max2(total_clinics, 0)
          /\ \A r \in Rows(df) : DOMAIN df[r] \cap MetricsColumns = {}
    /\ Done =>
          \A r \in Rows(df) :
              IsNone(df[r].rating) =>
                  df[r].growth_potential =
                      Max2(10, Min2(100, 60 + ClaimedRecencyTerm(
                                  current_year - df[r].established_year)))

C14_Witness ==
    /\ Done
    /\ \E r \in Rows(df) :
          /\ IsNone(df[r].rating)
          /\ Val(all_businesses[r].rating) >= 45
          /\ df[r].growth_potential = 80

\* C15: categorize_area_tier returns 1 exactly for the six premium areas, 2
\* exactly for the six mid-tier areas and 3 for every other string, known to the
\* generator or not.
ClaimedPremium ==
    {"Koregaon Park", "Baner", "Aundh", "Kalyani Nagar", "Viman Nagar",
     "Magarpatta"}

ClaimedMidTier ==
    {"Kothrud", "Shivaji Nagar", "Camp", "Deccan", "Wakad", "Hinjewadi"}

C15_TierFunction ==
    ret.op = "categorize_area_tier" =>
        /\ ret.result \in {1, 2, 3}
        /\ ret.result = 1 <=> ret.area \in ClaimedPremium
        /\ ret.result = 2 <=> ret.area \in ClaimedMidTier
        /\ ret.result = 3 <=> ret.area \notin ClaimedPremium \cup ClaimedMidTier

C15_Witness ==
    /\ ret.op = "categorize_area_tier"
    /\ ret.area \notin pune_areas
    /\ ret.result = 3

\* C17: whatever year after 1970 the clock shows, generate_establishment_year
\* returns a year from 1970 to the year before the current one and does not fail.
C17_EstablishmentYearInRange ==
    ret.op = "generate_establishment_year" =>
        /\ ~ret.raised
        /\ 1970 <= ret.result
        /\ ret.result <= ret.current_year - 1

C17_Witness ==
    /\ ret.op = "generate_establishment_year"
    /\ ret.current_year - 1970 > 60
    /\ ~ret.raised
    /\ ret.result = ret.current_year - 1

\* C18: a Gym/Fitness row has one of the six gym categories, a Healthcare/Clinic
\* row one of the five clinic categories, each set's weights sum to 1.0, and
\* every row's area is in the area list.
RECURSIVE WeightSum(_)
WeightSum(S) ==
    IF S = {} THEN 0
    ELSE LET c == CHOOSE x \in S : TRUE
         IN  category_weights(c) + WeightSum(S \ {c})

CategoryAndAreaFromTables(row) ==
    /\ row.business_type = "Gym/Fitness" => row.business_category \in gym_categories
    /\ row.business_type = "Healthcare/Clinic" =>
          row.business_category \in clinic_categories
    /\ row.business_type \in {"Gym/Fitness", "Healthcare/Clinic"}
    /\ row.area \in pune_areas

C18_CategoriesAndAreas ==
    /\ Cardinality(gym_categories) = 6
    /\ Cardinality(clinic_categories) = 5
    /\ WeightSum(gym_categories) = 100
    /\ WeightSum(clinic_categories) = 100
    /\ \A r \in Rows(all_businesses) : CategoryAndAreaFromTables(all_businesses[r])
    /\ \A r \in Rows(df) : CategoryAndAreaFromTables(df[r])

C18_Witness ==
    /\ Done
    /\ \E r \in Rows(df) :
          /\ df[r].business_type = "Healthcare/Clinic"
          /\ df[r].business_category = "Multi-Specialty Hospital"
          /\ df[r].area = "Baner"

\* C19: every row's employee_count is within the inclusive range of its
\* category, and generate_employee_count on an unknown category returns a value
\* from 5 to 25.
ClaimedEmployeeRange(category) ==
    CASE category = "Traditional Gym" -> <<5, 25>>
      [] category = "Health Club/Wellness" -> <<10, 50>>
      [] category = "Functional Fitness" -> <<3, 15>>
      [] category = "Women-Only Gym" -> <<4, 20>>
      [] category = "Yoga/Pilates Studio" -> <<2, 10>>
      [] category = "Martial Arts/Boxing" -> <<3, 12>>
      [] category = "Multi-Specialty Hospital" -> <<50, 500>>
      [] category = "Specialty Clinic" -> <<5, 30>>
      [] category = "Diagnostic Center" -> <<8, 40>>
      [] category = "Physiotherapy Clinic" -> <<3, 15>>
      [] category = "Wellness Center" -> <<5, 25>>
      [] OTHER -> <<5, 25>>

InEmployeeRange(category, n) ==
    /\ ClaimedEmployeeRange(category)[1] <= n
    /\ n <= ClaimedEmployeeRange(category)[2]

C19_EmployeeCountInRange ==
    /\ \A r \in Rows(all_businesses) :
          InEmployeeRange(all_businesses[r].business_category,
                          all_businesses[r].employee_count)
    /\ \A r \in Rows(df) :
          InEmployeeRange(df[r].business_category, df[r].employee_count)
    /\ ret.op = "generate_employee_count" =>
          InEmployeeRange(ret.business_type, ret.result)

C19_Witness ==
    /\ ret.op = "generate_employee_count"
    /\ ret.business_type \notin gym_categories \cup clinic_categories
    /\ ret.result = 25

\* C16: when save_enhanced_dataset fails to write the sidecar metadata, or no
\* write of the export file succeeds, the call ends by raising, and the table it
\* was given is the same afterwards.
SaveEnded == ret.op = "save_enhanced_dataset" /\ pc \in {"saved", "save_raised"}

IsMetadataWrite(w) == w.file.ext = "_metadata.json"

ExportFailed == \A k \in Rows(ret.writes) :
                    IsMetadataWrite(ret.writes[k]) \/ ret.writes[k].outcome # "ok"

SidecarFailed ==
    \/ \E k \in Rows(ret.writes) :
          IsMetadataWrite(ret.writes[k]) /\ ret.writes[k].outcome # "ok"
    \/ ~IsNone(ret.metadata) /\ Val(ret.metadata).error

C16_SaveFailureSurfaced ==
    SaveEnded =>
        /\ (ExportFailed \/ SidecarFailed) => pc = "save_raised"
        /\ df = ret.frame

\* C20: every row of the table collect_multi_source_data returns, scraped or
\* generated, has a business_type of Gym/Fitness or Healthcare/Clinic and has an
\* area value.
CollectReturned == ret.op = "collect_multi_source_data" /\ pc = "collected"

C20_CollectedRowsNormalized ==
    CollectReturned =>
        \A r \in Rows(ret.result) :
            /\ ret.result[r].business_type \in {"Gym/Fitness", "Healthcare/Clinic"}
            /\ ~IsNone(ret.result[r].area)

\* C21: the table collect_multi_source_data returns has at least
\* target_businesses rows, however many records the scraping produced.
C21_TargetMet ==
    CollectReturned =>
        Len(ret.result) >= ret.target_businesses

\* C22: save_enhanced_dataset returns only after a CSV write succeeded, the
\* saved_filename it returns is the path of that write (the caller's filename
\* when the first attempt succeeds, a retry or the alternative filename
\* otherwise), and when no CSV write succeeds the call raises.
CsvWrites == {k \in Rows(ret.writes) : ret.writes[k].kind # "metadata"}

CsvSaved == {k \in CsvWrites : ret.writes[k].outcome = "ok"}

IsRetryOf(file, requested) ==
    /\ file.dir = requested.dir
    /\ file.ext = requested.ext
    /\ Len(file.stem) > Len(requested.stem)
    /\ SubSeq(file.stem, 1, Len(requested.stem)) = requested.stem

C22_SavedFilenameIsWrittenFile ==
    ret.op = "save_enhanced_dataset" =>
        /\ pc = "saved" =>
              /\ Cardinality(CsvSaved) = 1
              /\ \A k \in CsvSaved :
                    /\ Val(ret.metadata).saved_filename = ret.writes[k].file
                    /\ k = 1 => ret.writes[k].file = ret.requested
                    /\ (k > 1 /\ ret.writes[k].kind = "loop") =>
                          IsRetryOf(ret.writes[k].file, ret.requested)
                    /\ ret.writes[k].kind = "alt" =>
                          \E timestamp \in 0..ret.now + 1 :
                              ret.writes[k].file = alt_filename(timestamp)
                    /\ \A j \in CsvWrites : j <= k
        /\ pc = "save_raised" => CsvSaved = {}
        /\ (pc = "saved" \/ pc = "save_metadata") => CsvSaved # {}

C22_Witness ==
    /\ ret.op = "save_enhanced_dataset"
    /\ pc = "saved"
    /\ \E k \in CsvSaved :
          /\ ret.writes[k].kind = "alt"
          /\ Val(ret.metadata).saved_filename = alt_filename(ret.now)

\* C23: the retry loop makes at most 3 attempts and at most one write to the
\* alternative file, whatever the writes raise; attempt 0 writes to the caller's
\* filename and no later loop attempt writes to it again.
LoopWrites == {k \in CsvWrites : ret.writes[k].kind = "loop"}

C24_NoDriverLeftOpen ==
    CollectReturned =>
        /\ IsNone(driver)
        /\ \A b \in (ret.browsers_before + 1)..Len(browsers) : browsers[b] >= 1

\* C25: over any sequence of cleanup(), __exit__ and __del__ calls, quit() is
\* called at most once on a browser, a call made while the collector holds a
\* driver leaves driver = None, a call made without a driver changes nothing,
\* and no call raises.
CleanupReturned == ret.op \in {"cleanup", "__exit__", "__del__"}

C25_CleanupIdempotent ==
    /\ \A b \in Rows(browsers) : browsers[b] <= 1
    /\ CleanupReturned =>
          /\ ~ret.raised
          /\ ~IsNone(ret.held) => IsNone(driver)
          /\ IsNone(ret.held) =>
                /\ IsNone(driver)
                /\ browsers = ret.browsers_before
                /\ cleanup_attempted = ret.attempted_before

\* C26: setup_driver_with_fallback returns True only with driver holding the
\* browser that passed the about:blank check, returns False only with driver =
\* None, and tries strategy 2 only after strategy 1 failed and the browser
\* strategy 1 created, if any, was quit and driver cleared.
SetupReturned ==
    \/ ret.op = "setup_driver_with_fallback" /\ pc = "collected"
    \/ pc = "collecting"

C26_SetupFallbackOrder ==
    SetupReturned =>
        LET last == IF IsNone(ret.second) THEN ret.first ELSE Val(ret.second)
        IN  /\ ret.driver_available =>
                  /\ last.ok
                  /\ ~IsNone(driver)
                  /\ driver = last.created
                  /\ browsers[Val(driver)] = 0
            /\ ~ret.driver_available => IsNone(driver)
            /\ IsNone(ret.second) <=> ret.first.ok
            /\ ~IsNone(ret.second) =>
                  /\ IsNone(ret.first.driver)
                  /\ ~IsNone(ret.first.created) =>
                        ret.first.browsers[Val(ret.first.created)] >= 1

C26_Witness ==
    /\ SetupReturned
    /\ ~IsNone(ret.second)
    /\ ~IsNone(ret.first.created)
    /\ ret.driver_available
    /\ driver = Some(Val(ret.first.created) + 1)

\* C27: run_complete_pipeline runs scraping, data processing, market analysis
\* and lead scoring in that order; a stage starts only after every earlier
\* stage returned True; the first stage that returns False makes the pipeline
\* return False with no later stage run; the pipeline returns True only after
\* four True results; and a scraper created by run_scraping has had cleanup()
\* called once run_scraping is left.
StageOrder ==
    <<"run_scraping", "run_data_processing", "run_market_analysis",
      "run_lead_scoring">>

C27_PipelineStageOrder ==
    ret.op = "run_complete_pipeline" =>
        /\ Len(ret.log) <= 4
        /\ \A k \in Rows(ret.log) :
              /\ ret.log[k].stage = StageOrder[k]
              /\ \A j \in 1..(k - 1) : ret.log[j].result = "True"
        /\ \A k \in 1..4 :
              pc = StageOrder[k] =>
                  /\ Len(ret.log) = k - 1
                  /\ \A j \in Rows(ret.log) : ret.log[j].result = "True"
        /\ (\E k \in Rows(ret.log) : ret.log[k].result = "False") =>
              /\ pc = "pipeline_returned"
              /\ ret.result = Some(FALSE)
        /\ ret.result = Some(TRUE) =>
              /\ pc = "pipeline_returned"
              /\ Len(ret.log) = 4
              /\ \A k \in Rows(ret.log) : ret.log[k].result = "True"
        /\ pc = "pipeline_returned" => ~IsNone(ret.result)
        /\ Len(ret.log) >= 1 =>
              ret.cleanup_calls = IF ret.scraper_created THEN 1 ELSE 0

C27_Witness ==
    /\ ret.op = "run_complete_pipeline"
    /\ pc = "pipeline_returned"
    /\ ret.result = Some(FALSE)
    /\ Len(ret.log) = 3
    /\ ret.log[3].path = "analysis_raises"
    /\ ret.scraper_created
    /\ ret.cleanup_calls = 1

C29_StandardPhoneIsMobile ==
    ret.op = "_standardize_phone" =>
        \/ IsNone(ret.result)
        \/ /\ Len(Val(ret.result)) = 10
           /\ \A k \in 1..10 : IsDigit(Val(ret.result)[k])
           /\ Val(ret.result)[1] \in {"6", "7", "8", "9"}

====
